---- MODULE Spec2Model ----
(***************************************************************************)
(* roonsim: the grid coordinate system (grid.rs), the tile geometry        *)
(* (tile.rs) and the tile placement / deletion click handlers              *)
(* (place_tile.rs, main.rs, ui.rs).                                        *)
(*                                                                         *)
(* World coordinates (bevy Vec2, f32) are modelled as whole pixels: every  *)
(* conversion of grid.rs divides by PIXELS_PER_GRID_UNIT and then floors   *)
(* or rounds, and floor(w / 4) = floor(floor(w) / 4), so the sub-pixel     *)
(* part of a click never reaches a grid coordinate.  Grid coordinates are  *)
(* i32; the inputs drawn here stay far inside the i32 range.               *)
(***************************************************************************)
EXTENDS Integers, Sequences, FiniteSets, TLC

VARIABLES
    state,        \* SimState resource
    ghost,        \* the GhostTile entity: NoGhost or [tile, offset, flip_x, flip_y]
    tiles,        \* placed Tile entities (With<Tile>, Without<GhostTile>), in query order
    sockets,      \* MarbleSocket entities: the set of their world positions
    events,       \* Events<MouseClick>: the buffered clicks (world positions) that some
                  \* reader has not read yet, oldest first
    place_read,   \* how many of them the EventReader of mouseclick_place_tile has read
    delete_read,  \* how many of them the EventReader of mouseclick_delete_tile has read
    running,      \* the click system that is in the middle of its event loop, or "none"
    commands,     \* the deferred Commands queue of the running system
    clicks,       \* number of MouseClick events written so far
    last,         \* what the click or key just handled did; NoClick once another system has run
    call,         \* function-level specification: the call under test
    done,         \* function-level specification: has the call returned
    ret           \* function-level specification: the returned value

vars == <<state, ghost, tiles, sockets, events, place_read, delete_read,
          running, commands, clicks, last, call, done, ret>>

boardVars == <<state, ghost, tiles, sockets, events, place_read, delete_read,
               running, commands, clicks, last>>

callVars == <<call, done, ret>>

-----------------------------------------------------------------------------
(* grid.rs : constants and numeric primitives *)

GRID_UNITS_PER_TILE == 4

PIXELS_PER_GRID_UNIT == 4

\* Mantissa width of f32, the type of a world coordinate.
F32_MANTISSA_BITS == 24

Abs(n) == IF n < 0 THEN -n ELSE n

\* Largest e with 2^e <= n, for n >= 1.
RECURSIVE Log2Floor(_)
Log2Floor(n) == IF n < 2 THEN 0 ELSE 1 + Log2Floor(n \div 2)

\* `v as f32` for an i32 v: exact below 2^24, otherwise rounded to the nearest
\* multiple of the unit in the last place, ties to the even multiple.
I32AsF32(v) ==
    LET a == Abs(v)
        e == Log2Floor(a)
    IN  IF a < 2 ^ F32_MANTISSA_BITS THEN v
        ELSE LET ulp  == 2 ^ (e - (F32_MANTISSA_BITS - 1))
                 q    == a \div ulp
                 r    == a % ulp
                 up   == (2 * r > ulp) \/ (2 * r = ulp /\ q % 2 = 1)
                 m    == IF up THEN (q + 1) * ulp ELSE q * ulp
             IN  IF v < 0 THEN -m ELSE m

\* The range of i32, the type of a grid coordinate (IVec2).
I32_MAX == 2147483647

I32_MIN == -I32_MAX - 1

\* i32 `a + b` leaves the i32 range: a panic in a build with overflow checks,
\* a wrapped sum otherwise.  (Written so that no intermediate value leaves the
\* range either.)
I32AddOverflows(a, b) ==
    IF b >= 0 THEN a > I32_MAX - b ELSE a < I32_MIN - b

\* i32 `a + b` as two's complement arithmetic computes it: a sum past I32_MAX
\* continues from I32_MIN, a sum below I32_MIN continues from I32_MAX.
I32WrappingAdd(a, b) ==
    IF ~I32AddOverflows(a, b) THEN a + b
    ELSE IF b >= 0 THEN I32_MIN + ((a - I32_MAX) + (b - 1))
    ELSE I32_MAX + ((a - I32_MIN) + (b + 1))

\* `(w / d as f32).floor() as i32`: the division by a power of two is exact.
F32DivFloor(w, d) == w \div d

\* `(w / d as f32).round() as i32`: f32::round rounds half away from zero.
F32DivRound(w, d) ==
    IF w >= 0 THEN (2 * w + d) \div (2 * d)
    ELSE -((2 * (-w) + d) \div (2 * d))

\* i32 `a / b` for b > 0: Rust's integer division truncates toward zero.
I32Div(a, b) == IF a >= 0 THEN a \div b ELSE -((-a) \div b)

\* i32 `x & 1`: the low bit of the two's complement representation.
BitAnd1(x) == x % 2

\* i32 `x % 2`: Rust's remainder takes the sign of the dividend.
I32Rem2(x) == IF x >= 0 THEN x % 2 ELSE -((-x) % 2)

GridPosition(x, y) == [x |-> x, y |-> y]

Vec2(x, y) == [x |-> x, y |-> y]

Offsets == {"Even", "Odd"}

-----------------------------------------------------------------------------
(* grid.rs : GridPosition conversions *)

\* GridPosition::from_world_snap_row
from_world_snap_row(pos) ==
    LET x  == F32DivFloor(pos.x, PIXELS_PER_GRID_UNIT)
        y0 == F32DivFloor(pos.y, PIXELS_PER_GRID_UNIT)
        y  == I32Div(y0, GRID_UNITS_PER_TILE) * GRID_UNITS_PER_TILE
    IN  GridPosition(x, y)

\* A parity test written with the remainder instead of the bit mask: a negative
\* odd x has remainder -1 and is left odd under Offset::Even.
from_world_with_offset_rem(pos, offset) ==
    LET g == from_world_snap_row(pos)
        x == IF offset = "Even"
             THEN (IF I32Rem2(g.x) = 1 THEN g.x - 1 ELSE g.x)
             ELSE (IF I32Rem2(g.x) = 0 THEN g.x + 1 ELSE g.x)
    IN  GridPosition(x, g.y)

\* The Odd adjustment stepping down instead of up.
from_world_with_offset_down(pos, offset) ==
    LET g == from_world_snap_row(pos)
        x == IF offset = "Even"
             THEN (IF BitAnd1(g.x) = 1 THEN g.x - 1 ELSE g.x)
             ELSE (IF BitAnd1(g.x) = 0 THEN g.x - 1 ELSE g.x)
    IN  GridPosition(x, g.y)

\* The Even adjustment stepping up instead of down: the origin lands right of the
\* column of the click.
from_world_with_offset_up(pos, offset) ==
    LET g == from_world_snap_row(pos)
        x == IF offset = "Even"
             THEN (IF BitAnd1(g.x) = 1 THEN g.x + 1 ELSE g.x)
             ELSE (IF BitAnd1(g.x) = 0 THEN g.x + 1 ELSE g.x)
    IN  GridPosition(x, g.y)

\* GridPosition::from_world_with_offset
from_world_with_offset(pos, offset) ==
    LET g == from_world_snap_row(pos)
        x == IF offset = "Even"
             THEN (IF BitAnd1(g.x) = 1 THEN g.x - 1 ELSE g.x)
             ELSE (IF BitAnd1(g.x) = 0 THEN g.x + 1 ELSE g.x)
    IN  GridPosition(x, g.y)

\* The rounding conversion replaced by the row-snapping one.
from_world_snapping(pos) == from_world_snap_row(pos)

\* GridPosition::from_world
from_world(pos) ==
    GridPosition(F32DivRound(pos.x, PIXELS_PER_GRID_UNIT),
                 F32DivRound(pos.y, PIXELS_PER_GRID_UNIT))

\* GridPosition::to_world
to_world(self) ==
    Vec2(I32AsF32(self.x * PIXELS_PER_GRID_UNIT),
         I32AsF32(self.y * PIXELS_PER_GRID_UNIT))

-----------------------------------------------------------------------------
(* tile.rs : tile kinds, footprints *)

\* ALL_TILES, in declaration order
ALL_TILES ==
    <<"Canute", "Shimmy", "Switch", "Turn", "Distributor",
      "LongTurn", "Path", "Swap", "Trap", "Xor">>

Tiles == {ALL_TILES[i] : i \in 1..Len(ALL_TILES)}

\* A width table that gives one kind no squares at all.
grid_width_zero(self) ==
    LET squares ==
            CASE self = "Path" -> 0
              [] self = "Shimmy" -> 1
              [] self \in {"Canute", "Swap", "Switch", "Turn", "Xor"} -> 2
              [] self \in {"Distributor", "LongTurn", "Trap"} -> 3
    IN  GRID_UNITS_PER_TILE * squares

\* The width table read as squares, the factor GRID_UNITS_PER_TILE forgotten.
grid_width_squares(self) ==
    CASE self \in {"Path", "Shimmy"} -> 1
      [] self \in {"Canute", "Swap", "Switch", "Turn", "Xor"} -> 2
      [] self \in {"Distributor", "LongTurn", "Trap"} -> 3

\* Tile::grid_width
grid_width(self) ==
    LET squares ==
            CASE self \in {"Path", "Shimmy"} -> 1
              [] self \in {"Canute", "Swap", "Switch", "Turn", "Xor"} -> 2
              [] self \in {"Distributor", "LongTurn", "Trap"} -> 3
    IN  GRID_UNITS_PER_TILE * squares

\* The Odd arm of the match lost: every kind is Even.
offset_all_even(self) == "Even"

\* Tile::offset
offset(self) == IF self = "Shimmy" THEN "Odd" ELSE "Even"

\* Tile::extent
extent(self, origin) == [origin |-> origin, width |-> grid_width(self)]

\* The right-edge test off by one: the column just past the extent counts as inside.
contains_closed(self, world_pos) ==
    LET grid_pos == from_world_snap_row(world_pos)
    IN  IF self.origin.y # grid_pos.y THEN FALSE
        ELSE IF grid_pos.x < self.origin.x THEN FALSE
        ELSE IF grid_pos.x > self.origin.x + self.width THEN FALSE
        ELSE TRUE

\* GridExtent::contains, after the conversion of the point, reaches
\* `self.origin.0.x + self.width` and the sum overflows.
contains_overflows(self, grid_pos) ==
    /\ self.origin.y = grid_pos.y
    /\ ~(grid_pos.x < self.origin.x)
    /\ I32AddOverflows(self.origin.x, self.width)

\* GridExtent::contains, after the conversion of the point to grid_pos
contains_grid_pos(self, grid_pos) ==
    IF self.origin.y # grid_pos.y THEN FALSE
    ELSE IF grid_pos.x < self.origin.x THEN FALSE
    ELSE IF grid_pos.x >= I32WrappingAdd(self.origin.x, self.width) THEN FALSE
    ELSE TRUE

\* GridExtent::contains
contains(self, world_pos) == contains_grid_pos(self, from_world_snap_row(world_pos))

\* The "entirely left" tests made strict: extents that only touch count as overlapping.
intersects_touching(self, other) ==
    IF self.origin.y # other.origin.y THEN FALSE
    ELSE IF self.origin.x + self.width < other.origin.x THEN FALSE
    ELSE IF other.origin.x + other.width < self.origin.x THEN FALSE
    ELSE TRUE

\* The second "entirely left" test forgotten.
intersects_one_sided(self, other) ==
    IF self.origin.y # other.origin.y THEN FALSE
    ELSE IF self.origin.x + self.width <= other.origin.x THEN FALSE
    ELSE TRUE

\* GridExtent::intersects reaches a sum `origin.0.x + width` that overflows.
intersects_overflows(self, other) ==
    /\ self.origin.y = other.origin.y
    /\ \/ I32AddOverflows(self.origin.x, self.width)
       \/ /\ ~(I32WrappingAdd(self.origin.x, self.width) <= other.origin.x)
          /\ I32AddOverflows(other.origin.x, other.width)

\* GridExtent::intersects
intersects(self, other) ==
    IF self.origin.y # other.origin.y THEN FALSE
    ELSE IF I32WrappingAdd(self.origin.x, self.width) <= other.origin.x THEN FALSE
    ELSE IF I32WrappingAdd(other.origin.x, other.width) <= self.origin.x THEN FALSE
    ELSE TRUE

-----------------------------------------------------------------------------
(* tile.rs : marble sockets and the cycle of kinds *)

\* MarbleY as grid units (MarbleY::to_grid)
MarbleY_Bottom == 1

MarbleY_Top == 3

\* IoCoord::bottom
IoCoord_bottom(x) == [x |-> x, y |-> MarbleY_Bottom]

\* IoCoord::top
IoCoord_top(x) == [x |-> x, y |-> MarbleY_Top]

\* Tile::outputs, through Tile::io and the static CANUTE_IO .. XOR_IO tables
outputs(self) ==
    CASE self = "Canute" -> <<IoCoord_bottom(2), IoCoord_top(4), IoCoord_top(6)>>
      [] self = "Shimmy" -> <<IoCoord_top(3)>>
      [] self = "Switch" -> <<IoCoord_top(2), IoCoord_top(4), IoCoord_top(6)>>
      [] self = "Turn" -> <<IoCoord_bottom(2), IoCoord_bottom(6)>>
      [] self = "Distributor" -> <<IoCoord_top(2), IoCoord_top(6), IoCoord_top(10)>>
      [] self = "LongTurn" -> <<IoCoord_bottom(2), IoCoord_bottom(6), IoCoord_bottom(10)>>
      [] self = "Path" -> <<IoCoord_top(2)>>
      [] self = "Swap" -> <<IoCoord_top(2), IoCoord_top(6)>>
      [] self = "Trap" -> <<IoCoord_top(2), IoCoord_top(6), IoCoord_top(8)>>
      [] self = "Xor" -> <<IoCoord_top(2), IoCoord_top(4), IoCoord_top(6)>>

\* flip_x without `x += tile_pos.width`: the sockets are mirrored about the origin
\* instead of the middle of the tile.
IoCoord_to_world_unshifted(self, tile_pos, flip_x, flip_y) ==
    LET x0 == tile_pos.origin.x
        x_direction == IF flip_x THEN -1 ELSE 1
        y0 == IF flip_y THEN tile_pos.origin.y + 1 ELSE tile_pos.origin.y
        y_direction == IF flip_y THEN -1 ELSE 1
    IN  to_world(GridPosition(x0 + x_direction * self.x, y0 + y_direction * self.y))

\* flip_x starting from the last column of the tile, origin.x + width - 1.
IoCoord_to_world_last_column(self, tile_pos, flip_x, flip_y) ==
    LET x0 == IF flip_x THEN tile_pos.origin.x + tile_pos.width - 1 ELSE tile_pos.origin.x
        x_direction == IF flip_x THEN -1 ELSE 1
        y0 == IF flip_y THEN tile_pos.origin.y + 1 ELSE tile_pos.origin.y
        y_direction == IF flip_y THEN -1 ELSE 1
    IN  to_world(GridPosition(x0 + x_direction * self.x, y0 + y_direction * self.y))

\* IoCoord::to_world
IoCoord_to_world(self, tile_pos, flip_x, flip_y) ==
    LET x0 == IF flip_x THEN tile_pos.origin.x + tile_pos.width ELSE tile_pos.origin.x
        x_direction == IF flip_x THEN -1 ELSE 1
        y0 == IF flip_y THEN tile_pos.origin.y + 1 ELSE tile_pos.origin.y
        y_direction == IF flip_y THEN -1 ELSE 1
    IN  to_world(GridPosition(x0 + x_direction * self.x, y0 + y_direction * self.y))

\* A cycle that leaves the last kind out.
next_skipping(self) ==
    CASE self = "Canute" -> "Shimmy"
      [] self = "Shimmy" -> "Switch"
      [] self = "Switch" -> "Turn"
      [] self = "Turn" -> "Distributor"
      [] self = "Distributor" -> "LongTurn"
      [] self = "LongTurn" -> "Path"
      [] self = "Path" -> "Swap"
      [] self = "Swap" -> "Trap"
      [] self = "Trap" -> "Canute"
      [] self = "Xor" -> "Canute"

\* Tile::next
next(self) ==
    CASE self = "Canute" -> "Shimmy"
      [] self = "Shimmy" -> "Switch"
      [] self = "Switch" -> "Turn"
      [] self = "Turn" -> "Distributor"
      [] self = "Distributor" -> "LongTurn"
      [] self = "LongTurn" -> "Path"
      [] self = "Path" -> "Swap"
      [] self = "Swap" -> "Trap"
      [] self = "Trap" -> "Xor"
      [] self = "Xor" -> "Canute"

-----------------------------------------------------------------------------
(* Bounds of the inputs *)

\* World coordinates of a probe, in pixels: x in -MaxWorldX .. MaxWorldX,
\* y in -MaxWorldY .. MaxWorldY (the rows -4, 0 and 4 and both of their edges).
MaxWorldX == 12

MaxWorldY == 20

\* Grid coordinates of a probe origin: x in -MaxGridX .. MaxGridX, y in
\* -MaxGridY .. MaxGridY (row-aligned or not).
MaxGridX == 3

MaxGridY == 4

WorldPositions ==
    {Vec2(x, y) : x \in (-MaxWorldX)..MaxWorldX, y \in (-MaxWorldY)..MaxWorldY}

GridPositions ==
    {GridPosition(x, y) : x \in (-MaxGridX)..MaxGridX, y \in (-MaxGridY)..MaxGridY}

\* Grid coordinates around the point where x * PIXELS_PER_GRID_UNIT stops being
\* exactly representable in f32.
LargeGridCoords ==
    {2 ^ 22 - 1, 2 ^ 22, 2 ^ 22 + 1, 2 ^ 24 + 1, -(2 ^ 24 + 1), 2 ^ 24 + 2, 2 ^ 26 + 3}

LargeGridPositions ==
    {GridPosition(x, y) : x \in LargeGridCoords, y \in {0, 1}}
        \cup {GridPosition(1, y) : y \in LargeGridCoords}

\* Every footprint Tile::extent can produce at the probe origins.
Extents == {extent(t, o) : t \in Tiles, o \in GridPositions}

-----------------------------------------------------------------------------
(* The board before any interaction: SimState::Idle (#[default]), no ghost,   *)
(* no tile, no socket, no buffered click.                                     *)

NoGhost == [tile |-> "none"]

NoClick == [kind |-> "none"]

BoardInit ==
    /\ state = "Idle"
    /\ ghost = NoGhost
    /\ tiles = <<>>
    /\ sockets = {}
    /\ events = <<>>
    /\ place_read = 0
    /\ delete_read = 0
    /\ running = "none"
    /\ commands = <<>>
    /\ clicks = 0
    /\ last = NoClick

NoCall == [fn |-> "none"]

NoRet == [pending |-> TRUE]

-----------------------------------------------------------------------------
(* Function-level specification: one call of a pure function of grid.rs or   *)
(* tile.rs on inputs drawn from the bounded sets, and its return.            *)

InitialCall ==
    \/ \E p \in WorldPositions, o \in Offsets :
            call = [fn |-> "from_world_with_offset", pos |-> p, offset |-> o]
    \/ \E p \in WorldPositions :
            call = [fn |-> "from_world_snap_row", pos |-> p]
    \/ \E e \in Extents, p \in WorldPositions :
            call = [fn |-> "contains", self |-> e, pos |-> p]
    \/ \E a \in Extents, b \in Extents :
            call = [fn |-> "intersects", self |-> a, other |-> b]
    \/ \E g \in GridPositions \cup LargeGridPositions :
            call = [fn |-> "to_world", self |-> g]

GridInit ==
    /\ BoardInit
    /\ InitialCall
    /\ done = FALSE
    /\ ret = NoRet

Returns(fn, value) ==
    /\ call.fn = fn
    /\ ~done
    /\ done' = TRUE
    /\ ret' = value
    /\ UNCHANGED <<call, boardVars>>

CallFromWorldWithOffset ==
    Returns("from_world_with_offset",
            [g |-> from_world_with_offset(call.pos, call.offset)])

CallFromWorldSnapRow ==
    Returns("from_world_snap_row", [g |-> from_world_snap_row(call.pos)])

CallContains ==
    Returns("contains", [b |-> contains(call.self, call.pos)])

\* Both orders of the two extents are evaluated.
CallIntersects ==
    Returns("intersects",
            [ab |-> intersects(call.self, call.other),
             ba |-> intersects(call.other, call.self)])

\* grid -> world -> grid (rounding) -> world
CallRoundTrip ==
    Returns("to_world",
            [w  |-> to_world(call.self),
             g  |-> from_world(to_world(call.self)),
             w2 |-> to_world(from_world(to_world(call.self)))])

GridNext ==
    \/ CallFromWorldWithOffset
    \/ CallFromWorldSnapRow
    \/ CallContains
    \/ CallIntersects
    \/ CallRoundTrip

SpecGrid == GridInit /\ [][GridNext]_vars

Returned(fn) == done /\ call.fn = fn

-----------------------------------------------------------------------------
(* Claims about the pure functions, checked under SpecGrid *)

\* The grid columns an extent covers: the half-open span [origin.x, origin.x + width).
Span(e) == e.origin.x .. (e.origin.x + e.width - 1)

\* C3: intersects(a, b) is true exactly when a and b lie on the same row and their
\* half-open spans share at least one grid column; extents on different rows never
\* intersect, and extents that only touch do not intersect.
C3_IntersectsIffSameRowSharedColumn ==
    Returned("intersects") =>
        (ret.ab <=> (/\ call.self.origin.y = call.other.origin.y
                     /\ Span(call.self) \cap Span(call.other) # {}))

\* C3 witness: two touching extents on one row were tested and do not intersect.
C3_Witness ==
    /\ Returned("intersects")
    /\ call.self.origin.y = call.other.origin.y
    /\ call.self.origin.x + call.self.width = call.other.origin.x
    /\ ~ret.ab

\* C4: intersects is symmetric: intersects(a, b) = intersects(b, a).
C4_IntersectsSymmetric ==
    Returned("intersects") => (ret.ab <=> ret.ba)

\* C4 witness: two different overlapping extents were tested in both orders.
C4_Witness ==
    /\ Returned("intersects")
    /\ call.self # call.other
    /\ call.self.origin.x < call.other.origin.x
    /\ ret.ab
    /\ ret.ba

\* C5: an extent always intersects itself: intersects(e, e) is true.
C5_IntersectsReflexive ==
    (Returned("intersects") /\ call.self = call.other) => ret.ab

\* C5 witness: an extent of the narrowest kind was tested against itself.
C5_Witness ==
    /\ Returned("intersects")
    /\ call.self = call.other
    /\ call.self.width = GRID_UNITS_PER_TILE
    /\ ret.ab

\* C6: contains(e, p) is true exactly when the row-snap conversion of p gives a grid
\* position g with g.y = e.origin.y and e.origin.x <= g.x < e.origin.x + e.width.
C6_ContainsIffRowSnapInsideSpan ==
    Returned("contains") =>
        LET g == from_world_snap_row(call.pos)
        IN  ret.b <=> (/\ g.y = call.self.origin.y
                       /\ call.self.origin.x <= g.x
                       /\ g.x < call.self.origin.x + call.self.width)

\* C6 witness: a point in the last column of an extent on a negative row was found
\* inside it.
C6_Witness ==
    /\ Returned("contains")
    /\ ret.b
    /\ call.self.origin.y < 0
    /\ call.self.origin.x < 0
    /\ from_world_snap_row(call.pos).x = call.self.origin.x + call.self.width - 1

\* C7: the grid position returned by from_world_with_offset has y a whole multiple of
\* GRID_UNITS_PER_TILE and x even for Offset::Even, odd for Offset::Odd, for negative
\* coordinates too.
C7_SnappedRowAlignedAndParity ==
    Returned("from_world_with_offset") =>
        /\ ret.g.y % GRID_UNITS_PER_TILE = 0
        /\ call.offset = "Even" => ret.g.x % 2 = 0
        /\ call.offset = "Odd" => ret.g.x % 2 = 1

\* C7 witness: a negative world position whose floored grid x is odd was snapped
\* for Offset::Even.
C7_Witness ==
    /\ Returned("from_world_with_offset")
    /\ call.offset = "Even"
    /\ call.pos.x < 0
    /\ call.pos.y < 0
    /\ F32DivFloor(call.pos.x, PIXELS_PER_GRID_UNIT) = -3
    /\ ret.g.x = -4

\* C8: row snapping rounds toward negative infinity: the y produced by
\* from_world_snap_row / from_world_with_offset is the greatest multiple of 4 that is
\* less than or equal to the floored grid y, for negative y as well.
C8_RowSnapRoundsTowardNegativeInfinity ==
    (Returned("from_world_snap_row") \/ Returned("from_world_with_offset")) =>
        LET fy == F32DivFloor(call.pos.y, PIXELS_PER_GRID_UNIT)
        IN  /\ ret.g.y % GRID_UNITS_PER_TILE = 0
            /\ ret.g.y <= fy
            /\ fy < ret.g.y + GRID_UNITS_PER_TILE

\* C9: the parity adjustment moves x by at most one unit in a fixed direction:
\* Offset::Odd returns fx + 1 for even fx and fx for odd fx, Offset::Even returns
\* fx - 1 for odd fx and fx for even fx; y is the row-snapped y, unchanged.
C9_ParityAdjustmentDirection ==
    Returned("from_world_with_offset") =>
        LET fx   == F32DivFloor(call.pos.x, PIXELS_PER_GRID_UNIT)
            even == fx % 2 = 0
        IN  /\ (call.offset = "Odd" /\ even) => ret.g.x = fx + 1
            /\ (call.offset = "Odd" /\ ~even) => ret.g.x = fx
            /\ (call.offset = "Even" /\ ~even) => ret.g.x = fx - 1
            /\ (call.offset = "Even" /\ even) => ret.g.x = fx
            /\ ret.g.y = from_world_snap_row(call.pos).y

\* C9 witness: Offset::Odd on a negative even floored x stepped up by one.
C9_Witness ==
    /\ Returned("from_world_with_offset")
    /\ call.offset = "Odd"
    /\ F32DivFloor(call.pos.x, PIXELS_PER_GRID_UNIT) = -2
    /\ ret.g.x = -1

\* p * PIXELS_PER_GRID_UNIT is representable: the product is exactly an f32.
Representable(p) ==
    /\ I32AsF32(p.x * PIXELS_PER_GRID_UNIT) = p.x * PIXELS_PER_GRID_UNIT
    /\ I32AsF32(p.y * PIXELS_PER_GRID_UNIT) = p.y * PIXELS_PER_GRID_UNIT

\* C10: round-trip stability: for every grid position p whose product with
\* PIXELS_PER_GRID_UNIT is representable, to_world(from_world(to_world(p))) =
\* to_world(p), and from_world(to_world(p)) = p.
C10_RoundTripStable ==
    (Returned("to_world") /\ Representable(call.self)) =>
        /\ ret.w2 = ret.w
        /\ ret.g = call.self

\* C10 witness: a grid position with negative, non-row-aligned coordinates went
\* through the round trip.
C10_Witness ==
    /\ Returned("to_world")
    /\ Representable(call.self)
    /\ call.self.x < 0
    /\ call.self.y = -3
    /\ ret.g = call.self

\* Outside the representable range the grid position is not recovered.
C10_OutsideRange ==
    Returned("to_world") /\ ~Representable(call.self) /\ ret.g # call.self

-----------------------------------------------------------------------------
(* Function-level specification of tile.rs: one call of IoCoord::to_world,   *)
(* one walk over ALL_TILES (as the tile buttons of the panel are built), or  *)
(* a run of Tile::next (as the Space key cycles the ghost).                  *)

\* How many times Tile::next is applied in a row.
MaxApplications == 12

\* Grid x at the ends of the i32 range.  A world x of 2^33 pixels or more floors to
\* I32_MAX (`as i32` saturates), which from_world_with_offset keeps for Offset::Odd
\* and lowers to I32_MAX - 1 for Offset::Even; a world x of -2^33 or less gives I32_MIN.
FarGridCoords == {I32_MIN, I32_MIN + 1, 0, I32_MAX - 12, I32_MAX - 1, I32_MAX}

FarGridPositions == {GridPosition(x, 0) : x \in FarGridCoords}

\* Every output socket coordinate of every kind.
SocketCoords ==
    UNION {{[tile |-> t, c |-> outputs(t)[i]] : i \in 1..Len(outputs(t))} : t \in Tiles}

RECURSIVE NextTimes(_, _)
\* The kinds visited by n applications of Tile::next from self, in order.
NextTimes(self, n) ==
    IF n = 0 THEN <<>> ELSE <<next(self)>> \o NextTimes(next(self), n - 1)

TileInitialCall ==
    \/ \E s \in SocketCoords, f \in Extents, fy \in BOOLEAN :
            call = [fn |-> "IoCoord_to_world", tile |-> s.tile, self |-> s.c,
                    tile_pos |-> f, flip_y |-> fy]
    \/ call = [fn |-> "ALL_TILES"]
    \/ \E t \in Tiles, n \in 1..MaxApplications :
            call = [fn |-> "next", self |-> t, n |-> n]
    \/ \E t \in Tiles, o \in FarGridPositions, q \in FarGridPositions :
            call = [fn |-> "extent", tile |-> t, origin |-> o, point |-> q]

TileInit ==
    /\ BoardInit
    /\ TileInitialCall
    /\ done = FALSE
    /\ ret = NoRet

\* The socket with the tile as drawn and with the tile mirrored horizontally.
CallIoCoordToWorld ==
    Returns("IoCoord_to_world",
            [plain    |-> IoCoord_to_world(call.self, call.tile_pos, FALSE, call.flip_y),
             mirrored |-> IoCoord_to_world(call.self, call.tile_pos, TRUE, call.flip_y)])

\* The offset and the width of every kind, in the order of ALL_TILES.
CallKinds ==
    Returns("ALL_TILES",
            [table |-> [i \in 1..Len(ALL_TILES) |->
                           [tile   |-> ALL_TILES[i],
                            offset |-> offset(ALL_TILES[i]),
                            width  |-> grid_width(ALL_TILES[i])]]])

CallNext ==
    Returns("next", [visited |-> NextTimes(call.self, call.n)])

\* A tile anchored at a far origin, asked whether it contains a point (given by the
\* grid position its conversion returns) and whether it intersects the narrow tile
\* anchored at that point.  Where a sum overflows the build decides: a panic, or the
\* decision on the wrapped sum.
CallDecisionsFar ==
    LET self  == extent(call.tile, call.origin)
        other == extent("Path", call.point)
        overflows == \/ contains_overflows(self, call.point)
                     \/ intersects_overflows(self, other)
        decided == [panic |-> FALSE, overflows |-> overflows, self |-> self,
                    contains |-> contains_grid_pos(self, call.point),
                    intersects |-> intersects(self, other)]
        panicked == [panic |-> TRUE, overflows |-> TRUE, self |-> self]
    IN  /\ call.fn = "extent"
        /\ \/ Returns("extent", decided)
           \/ overflows /\ Returns("extent", panicked)

TileNext ==
    \/ CallIoCoordToWorld
    \/ CallKinds
    \/ CallNext
    \/ CallDecisionsFar

SpecTile == TileInit /\ [][TileNext]_vars

-----------------------------------------------------------------------------
(* Claims about tile.rs, checked under SpecTile *)

\* The grid position of a socket's world position.
SocketGrid(world_pos) == from_world(world_pos)

\* The tile position is the footprint Tile::extent gives the socket's own kind.
OwnFootprint == call.tile_pos = extent(call.tile, call.tile_pos.origin)

\* C11: horizontal mirroring: for every socket coordinate c, footprint f and flip_y,
\* the grid x of to_world(c, f, TRUE, flip_y) and of to_world(c, f, FALSE, flip_y) sum
\* to 2 * f.origin.x + f.width, and the two results have the same y.
C11_MirroredAboutMidpoint ==
    Returned("IoCoord_to_world") =>
        /\ SocketGrid(ret.mirrored).x + SocketGrid(ret.plain).x
              = 2 * call.tile_pos.origin.x + call.tile_pos.width
        /\ ret.mirrored.y = ret.plain.y

\* C11 witness: an off-centre socket of a tile at a negative origin was mirrored, with
\* the tile flipped vertically as well.
C11_Witness ==
    /\ Returned("IoCoord_to_world")
    /\ OwnFootprint
    /\ call.flip_y
    /\ call.tile_pos.origin.x < 0
    /\ SocketGrid(ret.mirrored).x # SocketGrid(ret.plain).x

\* Strictly inside the tile: origin.x < x < origin.x + width and
\* origin.y < y < origin.y + GRID_UNITS_PER_TILE.
StrictlyInside(g, f) ==
    /\ f.origin.x < g.x
    /\ g.x < f.origin.x + f.width
    /\ f.origin.y < g.y
    /\ g.y < f.origin.y + GRID_UNITS_PER_TILE

\* C12: for every kind, every output socket of the kind, every footprint produced by
\* Tile::extent and every combination of flip_x and flip_y, the socket's grid position
\* lies strictly inside the tile.
C12_SocketsStrictlyInsideTile ==
    (Returned("IoCoord_to_world") /\ OwnFootprint) =>
        /\ StrictlyInside(SocketGrid(ret.plain), call.tile_pos)
        /\ StrictlyInside(SocketGrid(ret.mirrored), call.tile_pos)

\* The kinds of the table with a given width.
KindsOfWidth(table, w) == {i \in DOMAIN table : table[i].width = w}

\* C13: among the ten kinds exactly one requires Offset::Odd, that kind has the
\* narrow width (GRID_UNITS_PER_TILE), and every other kind requires Offset::Even.
C13_ExactlyOneOddKindAndNarrow ==
    Returned("ALL_TILES") =>
        LET odd == {i \in DOMAIN ret.table : ret.table[i].offset = "Odd"}
        IN  /\ Len(ret.table) = 10
            /\ Cardinality({ret.table[i].tile : i \in DOMAIN ret.table}) = 10
            /\ Cardinality(odd) = 1
            /\ \A i \in odd : ret.table[i].width = GRID_UNITS_PER_TILE
            /\ \A i \in DOMAIN ret.table \ odd : ret.table[i].offset = "Even"

\* C13 witness: the table holds a narrow Odd kind and a narrow Even kind.
C13_Witness ==
    /\ Returned("ALL_TILES")
    /\ \E i, j \in DOMAIN ret.table :
          /\ ret.table[i].offset = "Odd"
          /\ ret.table[j].offset = "Even"
          /\ ret.table[i].width = GRID_UNITS_PER_TILE
          /\ ret.table[j].width = GRID_UNITS_PER_TILE

\* C14 as stated: grid_width returns only 4, 8 or 12 grid units, with two kinds of
\* 1 square, four kinds of 2 squares and three kinds of 3 squares.
C14_WidthsTwoFourThree ==
    Returned("ALL_TILES") =>
        /\ \A i \in DOMAIN ret.table :
              ret.table[i].width \in {GRID_UNITS_PER_TILE * k : k \in 1..3}
        /\ Cardinality(KindsOfWidth(ret.table, 1 * GRID_UNITS_PER_TILE)) = 2
        /\ Cardinality(KindsOfWidth(ret.table, 2 * GRID_UNITS_PER_TILE)) = 4
        /\ Cardinality(KindsOfWidth(ret.table, 3 * GRID_UNITS_PER_TILE)) = 3

\* C14, amended: grid_width is total over the ten kinds and returns only 4, 8 or 12
\* grid units, with two kinds of 1 square, five kinds of 2 squares and three kinds of
\* 3 squares.
C14_WidthsTwoFiveThree ==
    Returned("ALL_TILES") =>
        /\ Len(ret.table) = 10
        /\ \A i \in DOMAIN ret.table :
              ret.table[i].width \in {GRID_UNITS_PER_TILE * k : k \in 1..3}
        /\ Cardinality(KindsOfWidth(ret.table, 1 * GRID_UNITS_PER_TILE)) = 2
        /\ Cardinality(KindsOfWidth(ret.table, 2 * GRID_UNITS_PER_TILE)) = 5
        /\ Cardinality(KindsOfWidth(ret.table, 3 * GRID_UNITS_PER_TILE)) = 3

\* C14 witness: the table of widths was built and holds a kind of each width.
C14_Witness ==
    /\ Returned("ALL_TILES")
    /\ \A k \in 1..3 : KindsOfWidth(ret.table, k * GRID_UNITS_PER_TILE) # {}

\* C17: the decision functions never fault: for every footprint produced by
\* Tile::extent at any origin in the i32 grid range, origins reached by saturating
\* out-of-range world positions included, and every query point, intersects and
\* contains return a boolean without integer overflow in origin.x + width.
C17_DecisionsNeverOverflow ==
    Returned("extent") =>
        /\ ~ret.panic
        /\ ~ret.overflows
        /\ ret.contains \in BOOLEAN
        /\ ret.intersects \in BOOLEAN

\* The place of a kind in ALL_TILES.
Ordinal(t) == CHOOSE i \in 1..Len(ALL_TILES) : ALL_TILES[i] = t

\* C18: Tile::next is a single cycle over the ten kinds: the k-th application returns
\* to the starting kind exactly when k is a multiple of ten, ten applications visit
\* every kind, and each step follows the order of ALL_TILES with wrap-around.
C18_NextIsOneCycleInTableOrder ==
    Returned("next") =>
        /\ \A k \in 1..call.n :
              /\ (ret.visited[k] = call.self) <=> (k % Len(ALL_TILES) = 0)
              /\ ret.visited[k]
                    = ALL_TILES[((Ordinal(call.self) - 1 + k) % Len(ALL_TILES)) + 1]
        /\ call.n >= Len(ALL_TILES) =>
              {ret.visited[k] : k \in 1..Len(ALL_TILES)} = Tiles

\* C18 witness: ten applications from the last kind of ALL_TILES wrapped around and
\* came back to it.
C18_Witness ==
    /\ Returned("next")
    /\ call.self = ALL_TILES[Len(ALL_TILES)]
    /\ call.n = Len(ALL_TILES)
    /\ ret.visited[1] = ALL_TILES[1]
    /\ ret.visited[Len(ALL_TILES)] = call.self

\* The x parity of an origin matches the Offset its kind requires.
ParityMatches(t, origin) ==
    IF offset(t) = "Even" THEN origin.x % 2 = 0 ELSE origin.x % 2 = 1

\* C19: marble exits are at even horizontal grid locations: for every kind anchored
\* at an origin whose x parity matches the kind's Offset, every output socket and
\* both values of flip_x, the socket's grid x is even; the Odd kind achieves this with
\* odd tile-local socket offsets.
C19_SocketsAtEvenGridX ==
    (Returned("IoCoord_to_world") /\ OwnFootprint
        /\ ParityMatches(call.tile, call.tile_pos.origin)) =>
        /\ SocketGrid(ret.plain).x % 2 = 0
        /\ SocketGrid(ret.mirrored).x % 2 = 0
        /\ SocketGrid(ret.plain).x = call.tile_pos.origin.x + call.self.x
        /\ SocketGrid(ret.mirrored).x
              = call.tile_pos.origin.x + call.tile_pos.width - call.self.x
        /\ offset(call.tile) = "Odd" => call.self.x % 2 = 1

\* C19 witness: the socket of the Odd kind at a negative odd origin.
C19_Witness ==
    /\ Returned("IoCoord_to_world")
    /\ OwnFootprint
    /\ offset(call.tile) = "Odd"
    /\ call.tile_pos.origin.x = -3
    /\ SocketGrid(ret.plain).x = 0

-----------------------------------------------------------------------------
(* The board: main.rs, ui.rs, place_tile.rs, place_marble.rs.                *)
(*                                                                           *)
(* The click systems read MouseClick events through an EventReader and       *)
(* change the world only through Commands, which bevy applies when the       *)
(* system has returned: while a system loops over the events it has not      *)
(* read yet, its queries still show the world as it was when it started.     *)
(* One step of a click system below is one iteration of its event loop; the  *)
(* step that leaves the loop applies the queued commands.  No other system   *)
(* runs in between (running # "none").                                       *)

\* Clicks written over a run of the model.
MaxClicks == 3

\* World positions of the clicks: multiples of ClickStepX / ClickStepY pixels, at
\* and left of / below the world origin (an odd negative and an even grid column,
\* the rows -4 and 0).
MaxClickX == 1

MaxClickY == 1

ClickStepX == 10

ClickStepY == 20

ClickPositions ==
    {Vec2(ClickStepX * i, ClickStepY * j) :
        i \in (-MaxClickX)..0, j \in (-MaxClickY)..0}

\* The tile buttons pressed: the two narrow kinds (Even and Odd) and a wider kind.
PressedTiles == {"Path", "Shimmy", "Canute"}

\* The keys pressed while placing.
PressedKeys == {"Escape", "ArrowLeft"}

\* The action buttons pressed.
PressedActions == {"Delete", "Rewind"}

SimStates == {"Idle", "Placing", "Deleting", "Paused", "Running"}

UiActions == {"Delete", "Rewind", "Play", "Pause"}

Keys == {"Escape", "Space", "ArrowLeft", "ArrowUp"}

\* commands.spawn((sprite, transform, tile, new_tile_extent))
SpawnTile(tile, new_tile_extent) ==
    [cmd |-> "spawn_tile", tile |-> tile, extent |-> new_tile_extent]

\* place_marble_sockets: one MarbleSocket per output of the tile
place_marble_sockets(tile, new_tile_extent, flip_x, flip_y) ==
    [i \in 1..Len(outputs(tile)) |->
        [cmd |-> "spawn_socket",
         pos |-> IoCoord_to_world(outputs(tile)[i], new_tile_extent, flip_x, flip_y)]]

\* commands.entity(entity).despawn(), the entity named by its place in the query
Despawn(i) == [cmd |-> "despawn", index |-> i]

\* The tile entities a command queue spawns, in order.
SpawnedTiles(cmds) ==
    LET sel == SelectSeq(cmds, LAMBDA c : c.cmd = "spawn_tile")
    IN  [i \in 1..Len(sel) |-> [tile |-> sel[i].tile, extent |-> sel[i].extent]]

SpawnedSockets(cmds) ==
    {cmds[i].pos : i \in {j \in 1..Len(cmds) : cmds[j].cmd = "spawn_socket"}}

Despawned(cmds) ==
    {cmds[i].index : i \in {j \in 1..Len(cmds) : cmds[j].cmd = "despawn"}}

RECURSIVE Without(_, _, _)
\* The entities of seq whose place (counted from k) is not in gone.
Without(seq, gone, k) ==
    IF seq = <<>> THEN <<>>
    ELSE (IF k \in gone THEN <<>> ELSE <<Head(seq)>>) \o Without(Tail(seq), gone, k + 1)

\* The placed tiles once a command queue has been applied.
TilesAfter(cmds) == Without(tiles, Despawned(cmds), 1) \o SpawnedTiles(cmds)

SocketsAfter(cmds) == sockets \cup SpawnedSockets(cmds)

\* The collision loop of mouseclick_place_tile with its `return` lost: a collision
\* is found and the tile is spawned all the same.
Collides_ignored(existing_tiles, new_tile_extent) == FALSE

\* mouseclick_place_tile: does any existing tile's extent intersect the new one
Collides(existing_tiles, new_tile_extent) ==
    \E i \in 1..Len(existing_tiles) :
        intersects(existing_tiles[i].extent, new_tile_extent)

\* The `contains` test lost: the first tile of the query is taken whatever the click.
FirstContaining_any_tile(existing_tiles, world_pos) ==
    IF existing_tiles = <<>> THEN 0 ELSE 1

\* mouseclick_delete_tile: the first tile of the query whose extent contains the click
FirstContaining(existing_tiles, world_pos) ==
    LET hits == {i \in 1..Len(existing_tiles) : contains(existing_tiles[i].extent, world_pos)}
    IN  IF hits = {} THEN 0 ELSE CHOOSE i \in hits : \A j \in hits : i <= j

\* The buffered events with those both readers have read left out.
Unread(evs, p_read, d_read) ==
    LET k == IF p_read < d_read THEN p_read ELSE d_read
    IN  [events |-> SubSeq(evs, k + 1, Len(evs)),
         place_read |-> p_read - k,
         delete_read |-> d_read - k]

\* mouse_button_input: a left click inside the viewport writes one MouseClick
mouse_button_input(world_pos) ==
    /\ running = "none"
    /\ clicks < MaxClicks
    /\ events' = Append(events, world_pos)
    /\ clicks' = clicks + 1
    /\ last' = NoClick
    /\ UNCHANGED <<state, ghost, tiles, sockets, place_read, delete_read,
                   running, commands, callVars>>

\* Events<MouseClick> (add_event): the oldest buffered event expires; a reader
\* that had not read it never sees it.
events_update ==
    /\ running = "none"
    /\ events # <<>>
    /\ events' = Tail(events)
    /\ place_read' = IF place_read > 0 THEN place_read - 1 ELSE 0
    /\ delete_read' = IF delete_read > 0 THEN delete_read - 1 ELSE 0
    /\ last' = NoClick
    /\ UNCHANGED <<state, ghost, tiles, sockets, running, commands, clicks, callVars>>

\* mouseclick_place_tile, one iteration of `for mouse_click in event_reader.read()`
mouseclick_place_tile ==
    /\ state = "Placing"
    /\ running \in {"none", "place"}
    /\ place_read < Len(events)
    /\ ghost # NoGhost
    /\ LET world_pos == events[place_read + 1]
           grid_position == from_world_with_offset(world_pos, ghost.offset)
           new_tile_extent == extent(ghost.tile, grid_position)
           rejected == Collides(tiles, new_tile_extent)
           queued == IF rejected THEN commands
                     ELSE Append(commands, SpawnTile(ghost.tile, new_tile_extent))
                          \o place_marble_sockets(ghost.tile, new_tile_extent,
                                                  ghost.flip_x, ghost.flip_y)
           returns == rejected \/ place_read + 1 = Len(events)
           after == Unread(events, place_read + 1, delete_read)
       IN  /\ events' = after.events
           /\ place_read' = after.place_read
           /\ delete_read' = after.delete_read
           /\ last' = [kind |-> "place", world_pos |-> world_pos,
                       extent |-> new_tile_extent, rejected |-> rejected]
           /\ IF returns
              THEN /\ tiles' = TilesAfter(queued)
                   /\ sockets' = SocketsAfter(queued)
                   /\ commands' = <<>>
                   /\ running' = "none"
              ELSE /\ commands' = queued
                   /\ running' = "place"
                   /\ UNCHANGED <<tiles, sockets>>
    /\ UNCHANGED <<state, ghost, clicks, callVars>>

\* mouseclick_delete_tile, one iteration of `for mouse_click in event_reader.read()`
mouseclick_delete_tile ==
    /\ state = "Deleting"
    /\ running \in {"none", "delete"}
    /\ delete_read < Len(events)
    /\ LET world_pos == events[delete_read + 1]
           hit == FirstContaining(tiles, world_pos)
           queued == IF hit = 0 THEN commands ELSE Append(commands, Despawn(hit))
           returns == delete_read + 1 = Len(events)
           after == Unread(events, place_read, delete_read + 1)
       IN  /\ events' = after.events
           /\ place_read' = after.place_read
           /\ delete_read' = after.delete_read
           /\ last' = [kind |-> "delete", world_pos |-> world_pos, hit |-> hit]
           /\ IF returns
              THEN /\ tiles' = TilesAfter(queued)
                   /\ sockets' = SocketsAfter(queued)
                   /\ commands' = <<>>
                   /\ running' = "none"
              ELSE /\ commands' = queued
                   /\ running' = "delete"
                   /\ UNCHANGED <<tiles, sockets>>
    /\ UNCHANGED <<state, ghost, clicks, callVars>>

\* spawn_ghost_tile, the observer of UiTileSelected: the previous ghost is despawned
\* (DespawnGhost), a new ghost of the tile is spawned unflipped, the mode is Placing.
spawn_ghost_tile(tile) ==
    /\ ghost' = [tile |-> tile, offset |-> offset(tile),
                 flip_x |-> FALSE, flip_y |-> FALSE]
    /\ state' = "Placing"

\* tile_button_click: a tile button of the panel is pressed
tile_button_click(tile) ==
    /\ running = "none"
    /\ spawn_ghost_tile(tile)
    /\ last' = NoClick
    /\ UNCHANGED <<tiles, sockets, events, place_read, delete_read, running,
                   commands, clicks, callVars>>

\* action_button_click: an action button of the panel is pressed
action_button_click(action) ==
    /\ running = "none"
    /\ state' = CASE action = "Delete" -> "Deleting"
                  [] action = "Rewind" -> "Idle"
                  [] action = "Play" -> "Running"
                  [] action = "Pause" -> "Paused"
    /\ last' = NoClick
    /\ UNCHANGED <<ghost, tiles, sockets, events, place_read, delete_read, running,
                   commands, clicks, callVars>>

\* Escape without `next_state.set(SimState::Idle)`: the ghost goes, the mode stays.
placing_keyboard_escape_keeps_mode(key) ==
    /\ running = "none"
    /\ state = "Placing"
    /\ ghost # NoGhost
    /\ CASE key = "Escape" -> ghost' = NoGhost /\ UNCHANGED state
         [] key = "Space" -> spawn_ghost_tile(next(ghost.tile))
         [] key = "ArrowLeft" ->
                ghost' = [ghost EXCEPT !.flip_x = ~ghost.flip_x] /\ UNCHANGED state
         [] key = "ArrowUp" ->
                ghost' = [ghost EXCEPT !.flip_y = ~ghost.flip_y] /\ UNCHANGED state
    /\ last' = [kind |-> "key", key |-> key]
    /\ UNCHANGED <<tiles, sockets, events, place_read, delete_read, running,
                   commands, clicks, callVars>>

\* placing_keyboard, run in SimState::Placing, on one key just pressed
placing_keyboard(key) ==
    /\ running = "none"
    /\ state = "Placing"
    /\ ghost # NoGhost
    /\ CASE key = "Escape" -> ghost' = NoGhost /\ state' = "Idle"
         [] key = "Space" -> spawn_ghost_tile(next(ghost.tile))
         [] key = "ArrowLeft" ->
                ghost' = [ghost EXCEPT !.flip_x = ~ghost.flip_x] /\ UNCHANGED state
         [] key = "ArrowUp" ->
                ghost' = [ghost EXCEPT !.flip_y = ~ghost.flip_y] /\ UNCHANGED state
    /\ last' = [kind |-> "key", key |-> key]
    /\ UNCHANGED <<tiles, sockets, events, place_read, delete_read, running,
                   commands, clicks, callVars>>

Init ==
    /\ BoardInit
    /\ call = NoCall
    /\ done = FALSE
    /\ ret = NoRet

Next ==
    \/ \E t \in PressedTiles : tile_button_click(t)
    \/ \E a \in PressedActions : action_button_click(a)
    \/ \E k \in PressedKeys : placing_keyboard(k)
    \/ \E p \in ClickPositions : mouse_button_input(p)
    \/ events_update
    \/ mouseclick_place_tile
    \/ mouseclick_delete_tile

Spec == Init /\ [][Next]_vars

-----------------------------------------------------------------------------
(* Claims about the board, checked under Spec *)

\* C1: starting from an empty board, after any sequence of placement and deletion
\* clicks no two placed tiles have extents for which intersects() is true.
C1_NoTwoPlacedTilesIntersect ==
    \A i, j \in 1..Len(tiles) :
        i < j => ~intersects(tiles[i].extent, tiles[j].extent)

\* The tiles and sockets of the board together with those the running system has
\* queued for spawning.
TilesWithQueued == tiles \o SpawnedTiles(commands)

SocketsWithQueued == sockets \cup SpawnedSockets(commands)

\* C2: a placement click is rejected if and only if at least one already-placed
\* tile's extent intersects the candidate extent (same row, overlapping half-open
\* spans); a rejected click adds no tile and no marble socket.
C2_RejectedIffExistingTileIntersects ==
    [][last'.kind = "place" =>
        /\ last'.rejected <=>
              \E i \in 1..Len(tiles) :
                  /\ tiles[i].extent.origin.y = last'.extent.origin.y
                  /\ Span(tiles[i].extent) \cap Span(last'.extent) # {}
        /\ last'.rejected =>
              /\ TilesWithQueued' = TilesWithQueued
              /\ SocketsWithQueued' = SocketsWithQueued]_vars

\* C2 witness: a click on a board that holds a tile and a socket was rejected.
C2_Witness ==
    /\ last.kind = "place"
    /\ last.rejected
    /\ Len(tiles) = 1
    /\ sockets # {}

\* A placement click was handled and its tile committed (spawned or queued).
Committed == last.kind = "place" /\ ~last.rejected

\* C15 as stated: from Placing, a click that passes validation and commits a tile
\* returns the mode to Idle, and a cancel (Escape) returns it to Idle.
C15_CommitAndCancelReturnToIdle ==
    /\ Committed => state = "Idle"
    /\ (last.kind = "key" /\ last.key = "Escape") => state = "Idle"

\* C15, amended: from Placing, a click leaves the mode Placing and the ghost in
\* place, whether it commits a tile or is rejected; a cancel (Escape) returns the
\* mode to Idle and removes the ghost.
C15_ClickKeepsPlacingEscapeReturnsToIdle ==
    /\ last.kind = "place" => (state = "Placing" /\ ghost # NoGhost)
    /\ (last.kind = "key" /\ last.key = "Escape") => (state = "Idle" /\ ghost = NoGhost)

\* C15 witness: a click committed a tile and the mode is still Placing.
C15_Witness ==
    /\ Committed
    /\ running = "none"
    /\ Len(tiles) >= 1
    /\ state = "Placing"

\* C16: a deletion click at p removes at most one placed tile, the first tile in
\* iteration order whose extent contains p; every other placed tile is left in
\* place, and when no placed tile contains p the placed tiles are unchanged.
C16_DeleteRemovesFirstContaining ==
    [][last'.kind = "delete" =>
        LET hits  == {i \in 1..Len(tiles) : contains(tiles[i].extent, last'.world_pos)}
            first == {i \in hits : \A j \in hits : i <= j}
        IN  /\ TilesAfter(commands)' = Without(tiles, Despawned(commands) \cup first, 1)
            /\ Len(TilesAfter(commands)') >= Len(TilesAfter(commands)) - 1
            /\ hits = {} => TilesAfter(commands)' = TilesAfter(commands)]_vars

\* C16 witness: of two placed tiles the second contained the click and was removed,
\* the first is left in place.
C16_Witness ==
    /\ last.kind = "delete"
    /\ last.hit = 2
    /\ running = "none"
    /\ Len(tiles) = 1

\* C20 as stated: a tile committed by a placement click at p contains p, for every
\* kind, the Odd-offset kind included.
C20_CommittedTileContainsClick ==
    Committed => contains(last.extent, last.world_pos)

\* The floored grid column of the click just handled is odd.
ClickColumnOdd == F32DivFloor(last.world_pos.x, PIXELS_PER_GRID_UNIT) % 2 = 1

\* C20, amended: a tile of an Even-offset kind committed by a click at p contains p,
\* and so does a tile of the Odd-offset kind when the floored grid column of p is
\* odd; a deletion click at p then finds a tile containing p.  A tile of the Odd-offset
\* kind committed on an even column starts one column right of p and does not
\* contain it.
C20_CommittedTileContainsClickUnlessShifted ==
    Committed =>
        IF offset(ghost.tile) = "Even" \/ ClickColumnOdd
        THEN /\ contains(last.extent, last.world_pos)
             /\ running = "none" => FirstContaining(tiles, last.world_pos) # 0
        ELSE /\ ~contains(last.extent, last.world_pos)
             /\ last.extent.origin.x
                   = F32DivFloor(last.world_pos.x, PIXELS_PER_GRID_UNIT) + 1

\* C20 witness: a tile of the Odd-offset kind was committed on an odd negative column
\* and contains the click.
C20_Witness ==
    /\ Committed
    /\ running = "none"
    /\ offset(ghost.tile) = "Odd"
    /\ ClickColumnOdd
    /\ last.world_pos.x < 0
    /\ contains(last.extent, last.world_pos)

\* A socket position is an output position of a placed tile, for some mirroring.
SocketOfPlacedTile(pos) ==
    \E i \in 1..Len(tiles), flip_x \in BOOLEAN, flip_y \in BOOLEAN :
        \E k \in 1..Len(outputs(tiles[i].tile)) :
            IoCoord_to_world(outputs(tiles[i].tile)[k], tiles[i].extent, flip_x, flip_y) = pos

\* C21: every marble socket on the board belongs to a tile that is currently placed:
\* after any sequence of placement and deletion clicks each MarbleSocket sits at an
\* output position of some placed tile's extent, so deleting a tile leaves none of
\* its sockets behind.
C21_SocketsBelongToPlacedTiles ==
    \A pos \in sockets : SocketOfPlacedTile(pos)

\* C22: ghost/mode consistency: a ghost tile exists whenever the mode is Placing and
\* no ghost tile exists in any other mode.
C22_GhostExactlyWhenPlacing ==
    /\ state = "Placing" => ghost # NoGhost
    /\ state # "Placing" => ghost = NoGhost

====
